---- MODULE Spec2Model ----
(***************************************************************************)
(* A model of newcli.py: the dilated file-transfer client of               *)
(* magic-wormhole.  Bytes are numbers 0..255, byte strings are sequences   *)
(* of bytes, Python dicts are functions from key strings to values.        *)
(***************************************************************************)
EXTENDS Integers, Sequences, FiniteSets, TLC

(***************************************************************************)
(* Bounds of the model.                                                    *)
(***************************************************************************)
MaxPayload == 3     \* longest payload a foreign sender puts on a stream
MaxSize == 2        \* largest size a foreign sender declares in a header
MaxFiles == 2       \* most files on the tx command line
MaxFileLen == 2     \* longest file the tx side sends
ChunkSize == 1      \* FileSender's read size (CHUNK_SIZE), scaled down
NFs == 3            \* inbound streams in the name-collision specification
MaxPeerWrites == 2  \* ack frames a foreign receiver writes in a session
MaxCtlFrames == 2   \* control frames a foreign sender writes
Grain == 4          \* in a whole session, a delivered chunk is a multiple of
                    \* this many bytes, or all that is in flight

PayloadBytes == {1, 2}

(***************************************************************************)
(* Byte-string helpers.                                                    *)
(***************************************************************************)
Take(b, n) == SubSeq(b, 1, n)
Drop(b, n) == SubSeq(b, n + 1, Len(b))
IsPrefix(a, b) == Len(a) <= Len(b) /\ Take(b, Len(a)) = a

RECURSIVE SeqsUpTo(_, _)
SeqsUpTo(S, n) ==
    IF n = 0 THEN {<<>>}
    ELSE LET shorter == SeqsUpTo(S, n - 1)
         IN  shorter \cup {Append(q, x) : q \in shorter, x \in S}

(***************************************************************************)
(* to_be8 / from_be8: struct.pack(">Q") and its inverse.  TLC's integers   *)
(* are 32 bits wide, so from_be8 saturates at 2^24: it is exact for every  *)
(* value below 2^24 and returns 2^24 for every value at or above it.  The  *)
(* code only compares the result with buffer lengths, all far below 2^24.  *)
(***************************************************************************)
Saturated == 256 * 256 * 256

to_be8(value) ==
    <<0, 0, 0, 0, 0, (value \div 65536) % 256, (value \div 256) % 256, value % 256>>

from_be8(b) ==
    IF b[1] # 0 \/ b[2] # 0 \/ b[3] # 0 \/ b[4] # 0 \/ b[5] # 0
    THEN Saturated
    ELSE b[6] * 65536 + b[7] * 256 + b[8]

(***************************************************************************)
(* dict_to_bytes / bytes_to_dict (wormhole.util): a self-describing        *)
(* serialization of a dict.  Like the JSON text it stands for, it opens    *)
(* with "{" (123) and closes with "}" (125); each entry is a key byte, a   *)
(* length byte and the value's bytes, in the dict's insertion order.       *)
(***************************************************************************)
KeyOrder == <<"type", "size", "name", "compression", "ack", "sha256", "done">>

KeyByte(k) ==
    CASE k = "type" -> 116 [] k = "size" -> 115 [] k = "name" -> 110
      [] k = "compression" -> 99 [] k = "ack" -> 97 [] k = "sha256" -> 104
      [] k = "done" -> 100

ByteKey(c) == CHOOSE k \in {KeyOrder[i] : i \in 1..Len(KeyOrder)} : KeyByte(k) = c

Words == {"file", "tarball", "gzip", "ok", "no", "done", "more"}

WordBytes(w) ==
    CASE w = "file" -> <<102, 105>> [] w = "tarball" -> <<116, 97>>
      [] w = "gzip" -> <<103, 122>> [] w = "ok" -> <<111, 107>>
      [] w = "no" -> <<110, 111>> [] w = "done" -> <<100, 111>>
      [] w = "more" -> <<109, 111>>

BytesWord(b) == CHOOSE w \in Words : WordBytes(w) = b

\* Keys whose values are words, numbers, raw byte strings.
WordKeys == {"type", "compression", "ack", "done"}

\* The numbers a "size" can hold: an integer n is n itself, the float n + 0.5
\* is HalfBase + n.  isinstance(v, six.integer_types) tells them apart.
HalfBase == 1000
isinstance_integer(v) == v < HalfBase

\* A number as text: a natural as one digit byte, a negative integer with a
\* leading "-" (45), a float with a trailing "." (46).
NumberBytes(v) ==
    IF v < 0 THEN <<45, 0 - v>>
    ELSE IF v >= HalfBase THEN <<v - HalfBase, 46>>
    ELSE <<v>>

BytesNumber(b) ==
    IF Len(b) = 1 THEN b[1]
    ELSE IF b[1] = 45 THEN 0 - b[2]
    ELSE HalfBase + b[1]

ValueBytes(k, v) ==
    IF k \in WordKeys THEN WordBytes(v)
    ELSE IF k = "size" THEN NumberBytes(v)
    ELSE v

BytesValue(k, b) ==
    IF k \in WordKeys THEN BytesWord(b)
    ELSE IF k = "size" THEN BytesNumber(b)
    ELSE b

RECURSIVE EncodeEntries(_, _)
EncodeEntries(d, i) ==
    IF i > Len(KeyOrder) THEN <<>>
    ELSE LET k == KeyOrder[i]
         IN  (IF k \in DOMAIN d
              THEN LET vb == ValueBytes(k, d[k]) IN <<KeyByte(k), Len(vb)>> \o vb
              ELSE <<>>) \o EncodeEntries(d, i + 1)

dict_to_bytes(d) == <<123>> \o EncodeEntries(d, 1) \o <<125>>

RECURSIVE DecodeEntries(_)
DecodeEntries(b) ==
    IF Len(b) < 2 \/ b[1] = 125 THEN <<>>
    ELSE LET k == ByteKey(b[1])
             n == b[2]
             rest == DecodeEntries(Drop(b, 2 + n))
         IN  (k :> BytesValue(k, SubSeq(b, 3, 2 + n))) @@ rest

bytes_to_dict(b) == DecodeEntries(Drop(b, 1))

\* A frame: the 8-byte big-endian length, then the payload.
Frame(payload) == to_be8(Len(payload)) \o payload

(***************************************************************************)
(* hashlib.sha256, abstracted to a polynomial hash over the absorbed       *)
(* bytes; hexdigest() renders the state as three big-endian bytes.         *)
(***************************************************************************)
Sha256Modulus == 1000003
Sha256Base == 257
Sha256Init == 7

RECURSIVE Sha256Update(_, _)
Sha256Update(h, data) ==
    IF data = <<>> THEN h
    ELSE Sha256Update((h * Sha256Base + data[1] + 1) % Sha256Modulus, Drop(data, 1))

Sha256HexDigest(h) == <<(h \div 65536) % 256, (h \div 256) % 256, h % 256>>

\* hashlib.sha256(bytes).hexdigest()
DigestOf(bytes) == Sha256HexDigest(Sha256Update(Sha256Init, bytes))

(***************************************************************************)
(* State.                                                                  *)
(***************************************************************************)
VARIABLES
    scenario,   \* who runs at the two ends of the session
    fs,         \* the receiving side's download directory: name -> contents
    rx,         \* the ReceiveProtocol (and its Receiver) of each inbound stream
    peer,       \* what a foreign sender put on each inbound stream, how much of
                \* it has been delivered, and whether a chunk ended exactly at
                \* the end of the declared payload
    c2s,        \* per stream, the bytes in flight toward the receiving end
    s2c,        \* per stream, the bytes in flight toward the sending end
    args,       \* options.args of the tx process: the files to send
    pc,         \* where the tx process is in open()
    sp,         \* the SendProtocol made for each file
    cpA,        \* the tx process's ControlProtocol: the messages it sent
    ctl,        \* the bytes in flight on the control stream, toward the rx process
    cp,         \* the rx process's ControlProtocol
    pcB         \* where the rx process is in open()

rxVars == <<fs, rx, peer, c2s, s2c>>
txVars == <<args, pc, sp, cpA>>
ctlVars == <<ctl, cp, pcB>>
vars == <<scenario, fs, rx, peer, c2s, s2c, args, pc, sp, cpA, ctl, cp, pcB>>

Max(a, b) == IF a >= b THEN a ELSE b

Streams == 1..Max(MaxFiles, NFs)

(***************************************************************************)
(* Receiver (lines 84-111).  A Receiver is a record; fd is the name of the *)
(* file it writes in the download directory.  Each operator returns the    *)
(* new Receiver, the new directory, the return value (<<>> for None, else  *)
(* <<value>>) and the exception raised ("" when none).                     *)
(***************************************************************************)
Receiver_finish(r) ==
    [r   |-> [r EXCEPT !.fd_closed = TRUE],
     ret |-> <<[ack |-> "ok", sha256 |-> Sha256HexDigest(r.hasher)]>>]

\* A plausible slip in lines 97-100: the ack is also returned once remaining is below 0.
Receiver_check_AckOnOverflow(r, fsys) ==
    IF r.remaining <= 0
    THEN LET f == Receiver_finish(r)
         IN  [r |-> f.r, fs |-> fsys, ret |-> f.ret, raised |-> ""]
    ELSE [r |-> r, fs |-> fsys, ret |-> <<>>, raised |-> ""]

\* lines 97-100: what write() does once the chunk has been hashed, written and counted
Receiver_check(r, fsys) ==
    IF r.remaining = 0
    THEN LET f == Receiver_finish(r)
         IN  [r |-> f.r, fs |-> fsys, ret |-> f.ret, raised |-> ""]
    ELSE IF r.remaining < 0
    THEN [r |-> r, fs |-> fsys, ret |-> <<>>, raised |-> "Receiver overflow"]
    ELSE [r |-> r, fs |-> fsys, ret |-> <<>>, raised |-> ""]

Receiver_write(r, fsys, data) ==
    LET r1 == [r EXCEPT !.hasher = Sha256Update(@, data)]
    IN  IF r.fd_closed
        THEN \* fd.write on a closed file raises before anything is counted
             [r |-> r1, fs |-> fsys, ret |-> <<>>, raised |-> "write to closed file"]
        ELSE Receiver_check([r1 EXCEPT !.progress = @ + Len(data),
                                       !.remaining = @ - Len(data)],
                            [fsys EXCEPT ![r.fd] = @ \o data])

Receiver_close(r) == IF r.remaining # 0 THEN "unexpected close" ELSE ""

(***************************************************************************)
(* ReceiverFactory.incoming_file (lines 120-146).                          *)
(***************************************************************************)
RECURSIVE Decimal(_)
Decimal(n) == IF n < 10 THEN <<48 + n>> ELSE Decimal(n \div 10) \o <<48 + (n % 10)>>

\* "%s (%d)" % (name, count)
FormatName(name, count) == name \o <<32, 40>> \o Decimal(count) \o <<41>>

\* A plausible slip in lines 135-138: the suffixed name is not checked again.
TargetLoop_Once(fsys, name, target, count) ==
    IF target \in DOMAIN fsys THEN FormatName(name, count) ELSE target

\* while target.exists(): ...
RECURSIVE TargetLoop(_, _, _, _)
TargetLoop(fsys, name, target, count) ==
    IF target \in DOMAIN fsys
    THEN TargetLoop(fsys, name, FormatName(name, count), count + 1)
    ELSE target

ReceiverFactory_incoming_file(fsys, header) ==
    IF header["type"] # "file"
    THEN [raised |-> "unknown header.type", fs |-> fsys, receiver |-> <<>>]
    ELSE IF "compression" \in DOMAIN header
    THEN [raised |-> "unknown compression", fs |-> fsys, receiver |-> <<>>]
    ELSE IF ~isinstance_integer(header["size"])
    THEN [raised |-> "unknown size", fs |-> fsys, receiver |-> <<>>]
    ELSE LET target == TargetLoop(fsys, header["name"], header["name"], 1)
         IN  [raised |-> "",
              fs |-> (target :> <<>>) @@ fsys,      \* target.open("wb")
              receiver |-> <<[fd |-> target, fd_closed |-> FALSE,
                              remaining |-> header["size"],
                              hasher |-> Sha256Init, progress |-> 0]>>]

(***************************************************************************)
(* ReceiveProtocol (lines 46-82).  p is the protocol's record; the result  *)
(* is the new record and the new download directory.  p.out is everything  *)
(* written to the transport, p.raised the exceptions its handlers raised,  *)
(* p.decoded the headers bytes_to_dict returned, p.written the bytes       *)
(* handed to Receiver.write.                                               *)
(***************************************************************************)
ReceiveProtocol_init ==
    [state |-> "idle", in_header |-> TRUE, header_buffer |-> <<>>,
     receiver |-> <<>>, out |-> <<>>, raised |-> {}, decoded |-> <<>>,
     written |-> <<>>]

\* A plausible slip in line 71: the bytes read past the header frame are dropped.
HeaderTail_Dropped(header_buffer, header_size) == <<>>

\* data = self._header_buffer[8+header_size:]
HeaderTail(header_buffer, header_size) == Drop(header_buffer, 8 + header_size)

\* A plausible slip in lines 74-78: write() is skipped when there is no data.
WriteAndRespond_SkipEmpty(p, fsys, data) ==
    IF data = <<>> THEN [p |-> p, fs |-> fsys]
    ELSE LET w == Receiver_write(p.receiver[1], fsys, data)
             p1 == [p EXCEPT !.receiver = <<w.r>>, !.written = @ \o data]
         IN  IF w.raised # ""
             THEN [p |-> [p1 EXCEPT !.raised = @ \cup {w.raised}], fs |-> w.fs]
             ELSE IF w.ret # <<>>
             THEN LET resp_bytes == dict_to_bytes(w.ret[1])
                  IN  [p |-> [p1 EXCEPT !.out = @ \o to_be8(Len(resp_bytes)) \o resp_bytes],
                       fs |-> w.fs]
             ELSE [p |-> p1, fs |-> w.fs]

\* lines 74-78: hand data to the Receiver and write the ack it returns
WriteAndRespond(p, fsys, data) ==
    LET w == Receiver_write(p.receiver[1], fsys, data)
        p1 == [p EXCEPT !.receiver = <<w.r>>, !.written = @ \o data]
    IN  IF w.raised # ""
        THEN [p |-> [p1 EXCEPT !.raised = @ \cup {w.raised}], fs |-> w.fs]
        ELSE IF w.ret # <<>>
        THEN LET resp_bytes == dict_to_bytes(w.ret[1])
             IN  [p |-> [p1 EXCEPT !.out = @ \o to_be8(Len(resp_bytes)) \o resp_bytes],
                  fs |-> w.fs]
        ELSE [p |-> p1, fs |-> w.fs]

ReceiveProtocol_dataReceived(p, fsys, data) ==
    IF p.in_header
    THEN LET buf == p.header_buffer \o data
             have == Len(buf)
             p1 == [p EXCEPT !.header_buffer = buf]
         IN  IF have < 8
             THEN [p |-> p1, fs |-> fsys]
             ELSE LET header_size == from_be8(Take(buf, 8))
                  IN  IF have < 8 + header_size
                      THEN [p |-> p1, fs |-> fsys]
                      ELSE LET header_bytes == SubSeq(buf, 9, 8 + header_size)
                               header == bytes_to_dict(header_bytes)
                               inc == ReceiverFactory_incoming_file(fsys, header)
                               p2 == [p1 EXCEPT !.decoded = Append(@, header)]
                           IN  IF inc.raised # ""
                               THEN [p |-> [p2 EXCEPT !.raised = @ \cup {inc.raised}],
                                     fs |-> fsys]
                               ELSE WriteAndRespond(
                                        [p2 EXCEPT !.receiver = inc.receiver,
                                                   !.in_header = FALSE,
                                                   !.header_buffer = <<>>],
                                        inc.fs,
                                        HeaderTail(buf, header_size))
    ELSE WriteAndRespond(p, fsys, data)

ReceiveProtocol_connectionLost(p) ==
    IF p.receiver # <<>> /\ Receiver_close(p.receiver[1]) # ""
    THEN [p EXCEPT !.state = "lost", !.raised = @ \cup {Receiver_close(p.receiver[1])}]
    ELSE [p EXCEPT !.state = "lost"]

(***************************************************************************)
(* OneShotObserver (wormhole.observer).  result is the value it holds,     *)
(* delivering the value queued on the EventualQueue for the one Deferred   *)
(* handed out by when_fired() ("" while nothing is queued).                *)
(***************************************************************************)
OneShotObserver_init == [result |-> "NoResult", delivering |-> ""]

\* fire(): asserts that nothing was fired before
OneShotObserver_fire(o, result) ==
    IF o.result # "NoResult"
    THEN [o |-> o, raised |-> "AssertionError"]
    ELSE [o |-> [result |-> result,
                 delivering |-> IF o.delivering = "" THEN result ELSE o.delivering],
          raised |-> ""]

\* error(): overrides an existing result
OneShotObserver_error(o, f) ==
    [result |-> f, delivering |-> IF o.delivering = "" THEN f ELSE o.delivering]

(***************************************************************************)
(* SendProtocol (lines 149-217).  q is the protocol's record: conn is the  *)
(* state of its transport, producing that of the FileSender feeding it,    *)
(* written everything it wrote to the transport, raised the exceptions     *)
(* its handlers raised.                                                    *)
(***************************************************************************)
SendProtocol_init(fd, header, size) ==
    [fd |-> fd, pos |-> 0, header |-> header, size |-> size,
     done_observer |-> OneShotObserver_init,
     expected_hexhash |-> <<>>, ack_buffer |-> <<>>, done |-> FALSE,
     hasher |-> Sha256Init, conn |-> "connecting", producing |-> "none",
     written |-> <<>>, raised |-> {}, peer_wrote |-> 0]

\* lines 165-166: what connectionMade writes first
HeaderBytesWritten(header) == dict_to_bytes(header)

SendProtocol_connectionMade(q) ==
    [q EXCEPT !.conn = "open",
              !.written = @ \o HeaderBytesWritten(q.header),
              !.hasher = Sha256Init,
              !.producing = "active"]

\* A plausible slip in lines 170-173: the chunk is sent but not hashed.
count_and_hash_NoHash(hasher, data) == hasher

\* _count_and_hash: the FileSender's transform
count_and_hash(hasher, data) == Sha256Update(hasher, data)

\* FileSender.resumeProducing: read a chunk, transform and write it; at
\* end of file the Deferred fires and done() sets the expected hash.
FileSender_resumeProducing(q) ==
    LET chunk == SubSeq(q.fd, q.pos + 1, IF q.pos + ChunkSize <= Len(q.fd)
                                         THEN q.pos + ChunkSize ELSE Len(q.fd))
    IN  IF chunk = <<>>
        THEN [q EXCEPT !.producing = "finished",
                       !.expected_hexhash = <<Sha256HexDigest(q.hasher)>>]
        ELSE [q EXCEPT !.pos = @ + Len(chunk),
                       !.hasher = count_and_hash(@, chunk),
                       !.written = @ \o chunk]

\* A plausible slip in lines 207-210: the digest of the ack is not compared.
SendProtocol_process_ack_NoHashCheck(q, ack) ==
    IF q.expected_hexhash = <<>>
    THEN [q EXCEPT !.raised = @ \cup {"premature ack"}]
    ELSE IF ack["ack"] # "ok"
    THEN [q EXCEPT !.raised = @ \cup {"ack not ok"}]
    ELSE LET f == OneShotObserver_fire(q.done_observer, "ok")
         IN  IF f.raised # ""
             THEN [q EXCEPT !.raised = @ \cup {f.raised}]
             ELSE [q EXCEPT !.done_observer = f.o]

SendProtocol_process_ack(q, ack) ==
    IF q.expected_hexhash = <<>>
    THEN [q EXCEPT !.raised = @ \cup {"premature ack"}]
    ELSE IF ack["ack"] # "ok"
    THEN [q EXCEPT !.raised = @ \cup {"ack not ok"}]
    ELSE IF ack["sha256"] # q.expected_hexhash[1]
    THEN [q EXCEPT !.raised = @ \cup {"ack bad hash"}]
    ELSE LET f == OneShotObserver_fire(q.done_observer, "ok")
         IN  IF f.raised # ""
             THEN [q EXCEPT !.raised = @ \cup {f.raised}]
             ELSE [q EXCEPT !.done_observer = f.o]

SendProtocol_dataReceived(q, data) ==
    IF q.done
    THEN [q EXCEPT !.raised = @ \cup {"data after done"}]
    ELSE LET buf == q.ack_buffer \o data
             have == Len(buf)
             q1 == [q EXCEPT !.ack_buffer = buf]
         IN  IF have < 8
             THEN q1
             ELSE LET ack_size == from_be8(Take(buf, 8))
                  IN  IF have < 8 + ack_size
                      THEN q1
                      ELSE LET ack_bytes == SubSeq(buf, 9, 8 + ack_size)
                               ack == bytes_to_dict(ack_bytes)
                           IN  SendProtocol_process_ack(
                                   [q1 EXCEPT !.done = TRUE,
                                              !.conn = "closing"],   \* loseConnection()
                                   ack)

\* FileSender.stopProducing (twisted.protocols.basic): the consumer asks the
\* producer to stop, the Deferred of beginFileTransfer fails, done() is
\* skipped and the errback of line 184 fires the observer with the Failure.
FileSender_stopProducing(q) ==
    LET f == OneShotObserver_fire(q.done_observer, "stopped producing")
    IN  IF f.raised # ""
        THEN [q EXCEPT !.producing = "stopped", !.raised = @ \cup {f.raised}]
        ELSE [q EXCEPT !.producing = "stopped", !.done_observer = f.o]

\* A plausible slip in lines 214-216: a stream lost with part of an ack
\* buffered is not reported.
SendProtocol_connectionLost_Partial(q) ==
    IF ~q.done /\ q.ack_buffer = <<>>
    THEN [q EXCEPT !.conn = "lost",
                   !.done_observer = OneShotObserver_error(@, "premature close")]
    ELSE [q EXCEPT !.conn = "lost"]

SendProtocol_connectionLost(q) ==
    IF ~q.done
    THEN [q EXCEPT !.conn = "lost",
                   !.done_observer = OneShotObserver_error(@, "premature close")]
    ELSE [q EXCEPT !.conn = "lost"]

(***************************************************************************)
(* ControlProtocol (lines 225-249).                                        *)
(***************************************************************************)
ControlProtocol_init ==
    [buffer |-> <<>>, done |-> OneShotObserver_init, msg |-> <<>>, raised |-> {},
     peer_wrote |-> 0, conn |-> "open"]

\* send(): the framed message
ControlProtocol_send(msg) ==
    LET msg_bytes == dict_to_bytes(msg) IN to_be8(Len(msg_bytes)) \o msg_bytes

\* A plausible slip in lines 242-246: the observer is fired as soon as the
\* length prefix is there.
ControlProtocol_dataReceived_Partial(c, data) ==
    LET buf == c.buffer \o data
        c1 == [c EXCEPT !.buffer = buf]
        f == OneShotObserver_fire(c1.done, "msg")
    IN  IF Len(buf) < 8
        THEN c1
        ELSE IF f.raised # ""
        THEN [c1 EXCEPT !.raised = @ \cup {f.raised}]
        ELSE [c1 EXCEPT !.done = f.o]

ControlProtocol_dataReceived(c, data) ==
    LET buf == c.buffer \o data
        have == Len(buf)
        c1 == [c EXCEPT !.buffer = buf]
    IN  IF have < 8
        THEN c1
        ELSE LET msg_size == from_be8(Take(buf, 8))
             IN  IF have < 8 + msg_size
                 THEN c1
                 ELSE LET msg_bytes == SubSeq(buf, 9, 8 + msg_size)
                          msg == bytes_to_dict(msg_bytes)
                          f == OneShotObserver_fire(c1.done, "msg")
                      IN  IF f.raised # ""
                          THEN [c1 EXCEPT !.raised = @ \cup {f.raised}]
                          ELSE [c1 EXCEPT !.done = f.o, !.msg = <<msg>>]

\* ControlProtocol defines no connectionLost: Protocol's does nothing.
ControlProtocol_connectionLost(c) == [c EXCEPT !.conn = "lost"]

(***************************************************************************)
(* The receiving end of a stream and a foreign sender at its other end.    *)
(***************************************************************************)
NoPeer == [header |-> <<>>, payload |-> <<>>, delivered |-> 0, cut_at_size |-> FALSE]

FrameLen(pr) == Len(Frame(dict_to_bytes(pr.header)))
PeerStream(pr) == Frame(dict_to_bytes(pr.header)) \o pr.payload

\* The stream offset at which the payload bytes the header declares end.
DeclaredEnd(pr) == Len(Frame(dict_to_bytes(pr.header))) + pr.header["size"]

Name_x == <<120>>

Header(type, size, name) == [type |-> type, size |-> size, name |-> name]
WithCompression(h) == ("compression" :> "gzip") @@ h

\* The headers and payloads of the receive specification.
RxHeaders ==
    LET good == {Header("file", z, Name_x) : z \in 0..MaxSize}
    IN  good \cup {Header("tarball", 1, Name_x), WithCompression(Header("file", 1, Name_x)),
                   Header("file", -1, Name_x), Header("file", HalfBase + 1, Name_x)}
RxPayloads == SeqsUpTo(PayloadBytes, MaxPayload)
RxInputs == RxHeaders \X RxPayloads

\* The transport delivers the next n bytes in flight to dataReceived.
RxDeliver(s, n) ==
    /\ rx[s].state = "open"
    /\ n \in 1..Len(c2s[s])
    /\ LET res == ReceiveProtocol_dataReceived(rx[s], fs, Take(c2s[s], n))
       IN  /\ rx' = [rx EXCEPT ![s] = res.p]
           /\ fs' = res.fs
           /\ s2c' = [s2c EXCEPT ![s] = @ \o Drop(res.p.out, Len(rx[s].out))]
    /\ c2s' = [c2s EXCEPT ![s] = Drop(@, n)]
    /\ peer' = [peer EXCEPT ![s].delivered = @ + n,
                            ![s].cut_at_size = @ \/ (/\ peer[s].header # <<>>
                                                     /\ peer[s].delivered + n = DeclaredEnd(peer[s]))]
    /\ UNCHANGED <<scenario, txVars, ctlVars>>

\* A foreign sender opens inbound stream s and sends a framed header and a
\* payload: one of the <<header, payload>> pairs of inputs.
RxPeerOpen(s, inputs) ==
    /\ scenario \in {"FB", "DG"}
    /\ rx[s].state = "idle"
    /\ \E in \in inputs :
          /\ c2s' = [c2s EXCEPT ![s] = Frame(dict_to_bytes(in[1])) \o in[2]]
          /\ peer' = [peer EXCEPT ![s] = [NoPeer EXCEPT !.header = in[1], !.payload = in[2]]]
    /\ rx' = [rx EXCEPT ![s].state = "open"]
    /\ UNCHANGED <<scenario, fs, s2c, txVars, ctlVars>>

\* The receiving end's connection is lost: the foreign sender or the network
\* closed it (what was in flight is lost), or the sending process closed its
\* end and everything it wrote has arrived.
RxConnectionLost(s) ==
    /\ rx[s].state = "open"
    /\ \/ scenario = "FB"
       \/ /\ scenario = "AB"
          /\ s \in DOMAIN sp
          /\ sp[s].conn \in {"closing", "lost"}
          /\ c2s[s] = <<>>
    /\ rx' = [rx EXCEPT ![s] = ReceiveProtocol_connectionLost(@)]
    /\ c2s' = [c2s EXCEPT ![s] = <<>>]
    /\ UNCHANGED <<scenario, fs, peer, s2c, txVars, ctlVars>>

(***************************************************************************)
(* The tx process: open() in mode tx (lines 276-299) and the events of its *)
(* SendProtocols.                                                          *)
(***************************************************************************)
\* The command lines: up to MaxFiles files named "x", the first of any
\* length up to MaxFileLen, each next one a byte longer (and empty after the
\* longest).
FileData(n) == [k \in 1..n |-> IF k % 2 = 1 THEN 1 ELSE 2]
File(n) == [name |-> Name_x, data |-> FileData(n % (MaxFileLen + 1))]
ArgChoices == {[i \in 1..k |-> File(first + i - 1)] : k \in 0..MaxFiles, first \in 0..MaxFileLen}

\* lines 281-285
FileHeader(fp) == [type |-> "file", size |-> Len(fp.data), name |-> fp.name]

\* A SendProtocol event leaves q2 in place of sp[i]; what it wrote is in flight.
TxEvent(i, q2) ==
    /\ sp' = [sp EXCEPT ![i] = q2]
    /\ c2s' = [c2s EXCEPT ![i] = @ \o Drop(q2.written, Len(sp[i].written))]

\* lines 277-289: one turn of the for loop, up to its yield.  With this
\* program at the other end, its ReceiverFactory builds a ReceiveProtocol.
TxOpenNext ==
    /\ pc = "loop"
    /\ Len(sp) < Len(args)
    /\ LET fp == args[Len(sp) + 1]
       IN  sp' = Append(sp, SendProtocol_init(fp.data, FileHeader(fp), Len(fp.data)))
    /\ rx' = IF scenario = "AB" THEN [rx EXCEPT ![Len(sp) + 1].state = "open"] ELSE rx
    /\ pc' = "wait"
    /\ UNCHANGED <<scenario, fs, peer, c2s, s2c, args, cpA, ctlVars>>

TxConnectionMade(i) ==
    /\ i \in DOMAIN sp
    /\ sp[i].conn = "connecting"
    /\ TxEvent(i, SendProtocol_connectionMade(sp[i]))
    /\ UNCHANGED <<scenario, fs, rx, peer, s2c, args, pc, cpA, ctlVars>>

TxResumeProducing(i) ==
    /\ i \in DOMAIN sp
    /\ sp[i].producing = "active"
    /\ sp[i].conn \in {"open", "closing"}
    /\ TxEvent(i, FileSender_resumeProducing(sp[i]))
    /\ UNCHANGED <<scenario, fs, rx, peer, s2c, args, pc, cpA, ctlVars>>

TxDataReceived(i, n) ==
    /\ i \in DOMAIN sp
    /\ sp[i].conn \in {"open", "closing"}
    /\ n \in 1..Len(s2c[i])
    /\ TxEvent(i, SendProtocol_dataReceived(sp[i], Take(s2c[i], n)))
    /\ s2c' = [s2c EXCEPT ![i] = Drop(@, n)]
    /\ UNCHANGED <<scenario, fs, rx, peer, args, pc, cpA, ctlVars>>

\* The stream is lost: after loseConnection() or the end of the process, or,
\* with a foreign peer, whenever the peer or the network closes it.  A
\* transport that still has the FileSender registered may stop it first.
TxConnectionLost(i) ==
    /\ i \in DOMAIN sp
    /\ sp[i].conn \in {"open", "closing"}
    /\ \/ scenario = "AF"
       \/ sp[i].conn = "closing"
       \/ pc \in {"closing", "returned", "failed"}
    /\ \E stop \in (IF sp[i].producing = "active" THEN BOOLEAN ELSE {FALSE}) :
          TxEvent(i, SendProtocol_connectionLost(
                         IF stop THEN FileSender_stopProducing(sp[i]) ELSE sp[i]))
    /\ s2c' = [s2c EXCEPT ![i] = <<>>]
    /\ UNCHANGED <<scenario, fs, rx, peer, args, pc, cpA, ctlVars>>

\* A foreign receiver writes an ack frame: the right one, one with another
\* digest, or one that is not "ok".
PeerAcks(q) ==
    {Frame(dict_to_bytes([ack |-> "ok", sha256 |-> DigestOf(q.fd)])),
     Frame(dict_to_bytes([ack |-> "ok", sha256 |-> DigestOf(q.fd \o <<0>>)])),
     Frame(dict_to_bytes([ack |-> "no", sha256 |-> DigestOf(q.fd)]))}

RECURSIVE PeerWrote(_)
PeerWrote(i) == IF i = 0 THEN 0 ELSE sp[i].peer_wrote + PeerWrote(i - 1)

TxPeerWrite(i) ==
    /\ scenario = "AF"
    /\ i \in DOMAIN sp
    /\ sp[i].conn = "open"
    /\ PeerWrote(Len(sp)) < MaxPeerWrites
    /\ \E bytes \in PeerAcks(sp[i]) : s2c' = [s2c EXCEPT ![i] = @ \o bytes]
    /\ sp' = [sp EXCEPT ![i].peer_wrote = @ + 1]
    /\ UNCHANGED <<scenario, fs, rx, peer, c2s, args, pc, cpA, ctlVars>>

\* A plausible slip in line 289: a failed transfer does not stop the loop.
YieldResult_Continue(delivered) == "loop"

\* line 289: the yield returns on "ok" and throws on a Failure
YieldResult(delivered) == IF delivered = "ok" THEN "loop" ELSE "failed"

\* The EventualQueue runs the callback of the Deferred open() waits on.
TxResume ==
    /\ pc = "wait"
    /\ sp[Len(sp)].done_observer.delivering # ""
    /\ pc' = YieldResult(sp[Len(sp)].done_observer.delivering)
    /\ UNCHANGED <<scenario, rxVars, args, sp, cpA, ctlVars>>

\* A plausible slip in lines 277-291: "done" is sent once the first file is through.
LoopExhausted_First(made, given) == made >= 1

\* line 277: the for loop has no file left
LoopExhausted(made, given) == made = given

\* lines 291 and 298: cp.send({"done": "done"}), then w.close() is called
TxSendDone ==
    /\ pc = "loop"
    /\ LoopExhausted(Len(sp), Len(args))
    /\ cpA' = [cpA EXCEPT !.sent = Append(@, [done |-> "done"])]
    /\ ctl' = ctl \o ControlProtocol_send([done |-> "done"])
    /\ pc' = "closing"
    /\ UNCHANGED <<scenario, rxVars, args, sp, cp, pcB>>

\* lines 298-299: w.close() fires and open() returns 0
TxClosed ==
    /\ pc = "closing"
    /\ pc' = "returned"
    /\ UNCHANGED <<scenario, rxVars, args, sp, cpA, ctlVars>>

(***************************************************************************)
(* The rx process: open() in mode rx (lines 292-299) and its               *)
(* ControlProtocol.                                                        *)
(***************************************************************************)
CtlDeliver(n) ==
    /\ pcB \in {"wait", "closing"}
    /\ cp.conn = "open"
    /\ n \in 1..Len(ctl)
    /\ cp' = ControlProtocol_dataReceived(cp, Take(ctl, n))
    /\ ctl' = Drop(ctl, n)
    /\ UNCHANGED <<scenario, rxVars, txVars, pcB>>

\* A foreign sender writes a control frame.
CtlPeerWrite ==
    /\ scenario = "FB"
    /\ cp.conn = "open"
    /\ cp.peer_wrote < MaxCtlFrames
    /\ \E w \in {"done", "more"} : ctl' = ctl \o Frame(dict_to_bytes([done |-> w]))
    /\ cp' = [cp EXCEPT !.peer_wrote = @ + 1]
    /\ UNCHANGED <<scenario, rxVars, txVars, pcB>>

\* The control stream is lost: a foreign sender or the network closes it at
\* any time (what was in flight is lost); the tx process of this program
\* when it has ended and everything it wrote has arrived.
CtlConnectionLost ==
    /\ pcB \in {"wait", "closing"}
    /\ cp.conn = "open"
    /\ \/ scenario = "FB"
       \/ scenario = "AB" /\ pc \in {"returned", "failed"} /\ ctl = <<>>
    /\ cp' = ControlProtocol_connectionLost(cp)
    /\ ctl' = <<>>
    /\ UNCHANGED <<scenario, rxVars, txVars, pcB>>

\* line 294: the yield on cp.get_msg() returns; line 298: w.close() is called
RxResume ==
    /\ pcB = "wait"
    /\ cp.done.delivering # ""
    /\ pcB' = "closing"
    /\ UNCHANGED <<scenario, rxVars, txVars, ctl, cp>>

\* lines 298-299
RxClosed ==
    /\ pcB = "closing"
    /\ pcB' = "returned"
    /\ UNCHANGED <<scenario, rxVars, txVars, ctl, cp>>

(***************************************************************************)
(* SpecRx: one inbound stream, fed by a foreign sender in every chunking.  *)
(***************************************************************************)
InitCommon ==
    /\ rx = [s \in Streams |-> ReceiveProtocol_init]
    /\ peer = [s \in Streams |-> NoPeer]
    /\ c2s = [s \in Streams |-> <<>>]
    /\ s2c = [s \in Streams |-> <<>>]
    /\ sp = <<>>
    /\ cpA = [sent |-> <<>>]
    /\ ctl = <<>>
    /\ cp = ControlProtocol_init

InitRx ==
    /\ scenario = "FB"
    /\ fs = <<>>
    /\ args = <<>>
    /\ pc = "none"
    /\ pcB = "wait"
    /\ InitCommon

NextRx ==
    \/ RxPeerOpen(1, RxInputs)
    \/ \E n \in 1..Len(c2s[1]) : RxDeliver(1, n)
    \/ RxConnectionLost(1)

SpecRx == InitRx /\ [][NextRx]_vars

(***************************************************************************)
(* SpecFs: several inbound streams into one download directory that may    *)
(* already hold files.  Each stream carries the payload its header         *)
(* declares and is delivered whole, or the header frame first.             *)
(***************************************************************************)
Name_x1 == FormatName(Name_x, 1)

FsHeaders == {Header("file", 0, Name_x), Header("file", 1, Name_x), Header("file", 0, Name_x1)}
FsInputs == {<<h, Take(<<1>>, h["size"])>> : h \in FsHeaders}

InitFs ==
    /\ scenario = "FB"
    /\ fs \in {[n \in D |-> <<9>>] : D \in SUBSET {Name_x, Name_x1}}
    /\ args = <<>>
    /\ pc = "none"
    /\ pcB = "wait"
    /\ InitCommon

NextFs ==
    \E s \in 1..NFs :
        \/ (IF s = 1 THEN TRUE ELSE rx[s - 1].state # "idle") /\ RxPeerOpen(s, FsInputs)
        \/ \E n \in {FrameLen(peer[s]), Len(c2s[s])} : RxDeliver(s, n)
        \/ RxConnectionLost(s)

SpecFs == InitFs /\ [][NextFs]_vars

(***************************************************************************)
(* Spec: a whole session.  Scenario AB is this program in mode tx talking  *)
(* to this program in mode rx over reliable streams; AF is the tx process  *)
(* with a foreign peer; FB the rx process with a foreign peer.             *)
(***************************************************************************)
SessionInputs == {<<Header("file", z, Name_x), pl>> : z \in 0..1, pl \in {<<>>, <<1>>, <<1, 2>>}}

Init ==
    /\ scenario \in {"AB", "AF", "FB"}
    /\ fs = <<>>
    /\ args \in (IF scenario = "FB" THEN {<<>>} ELSE ArgChoices)
    /\ pc = IF scenario = "FB" THEN "none" ELSE "loop"
    /\ pcB = IF scenario = "AF" THEN "none" ELSE "wait"
    /\ InitCommon

\* The chunk lengths in which the bytes in flight may be delivered.
Chunks(wire) == {n \in 1..Len(wire) : n = Len(wire) \/ n % Grain = 0}

\* The steps of the program and of the transport between its two processes.
ProcessNext ==
    \/ TxOpenNext
    \/ \E i \in Streams : TxConnectionMade(i)
    \/ \E i \in Streams : TxResumeProducing(i)
    \/ \E i \in Streams : \E n \in Chunks(s2c[i]) : TxDataReceived(i, n)
    \/ \E i \in Streams : TxConnectionLost(i)
    \/ TxResume
    \/ TxSendDone
    \/ TxClosed
    \/ \E s \in Streams : RxConnectionLost(s)
    \/ \E n \in Chunks(ctl) : CtlDeliver(n)
    \/ CtlConnectionLost
    \/ RxResume
    \/ RxClosed

ProgramNext ==
    \/ ProcessNext
    \/ \E s \in Streams : \E n \in Chunks(c2s[s]) : RxDeliver(s, n)

\* The steps of a foreign peer.
PeerNext ==
    \/ \E i \in Streams : TxPeerWrite(i)
    \/ RxPeerOpen(1, SessionInputs)
    \/ CtlPeerWrite

Next == ProgramNext \/ PeerNext

Spec == Init /\ [][Next]_vars

\* The transport takes bytes in flight off the stream of an open
\* ReceiveProtocol: the steps of Next that do this are the RxDeliver steps,
\* and one of them can be taken whenever this can.
Delivery ==
    \E s \in Streams : \E n \in Chunks(c2s[s]) :
        /\ rx[s].state = "open"
        /\ c2s' = [c2s EXCEPT ![s] = Drop(@, n)]

\* Every step of the program that can be taken is taken, and the transport
\* delivers what is in flight.
FairSpec == Spec /\ WF_vars(ProcessNext) /\ WF_c2s(Delivery)

(***************************************************************************)
(* SpecDigest (scenario DG): a SendProtocol sends a file to a foreign      *)
(* peer while a foreign sender feeds a ReceiveProtocol a framed header     *)
(* for the same bytes, in every chunking.                                  *)
(***************************************************************************)
InitDigest ==
    /\ scenario = "DG"
    /\ fs = <<>>
    /\ args \in {<<[name |-> Name_x, data |-> d]>> : d \in SeqsUpTo(PayloadBytes, MaxFileLen)}
    /\ pc = "loop"
    /\ pcB = "wait"
    /\ InitCommon

NextDigest ==
    \/ TxOpenNext
    \/ TxConnectionMade(1)
    \/ TxResumeProducing(1)
    \/ RxPeerOpen(2, {<<FileHeader(args[1]), args[1].data>>})
    \/ \E n \in 1..Len(c2s[2]) : RxDeliver(2, n)

SpecDigest == InitDigest /\ [][NextDigest]_vars

(***************************************************************************)
(* SpecRace (scenario RC): the tx process with a receiver that follows the *)
(* protocol: it acks, with the digest of what it received, as soon as all  *)
(* the payload bytes the header declares have been written to it.  No      *)
(* stream is lost before the SendProtocol closes it.                       *)
(***************************************************************************)
\* What a SendProtocol wrote after its header.
PayloadWritten(q) == Drop(q.written, Len(HeaderBytesWritten(q.header)))

TxPeerAck(i) ==
    /\ scenario = "RC"
    /\ i \in DOMAIN sp
    /\ sp[i].conn = "open"
    /\ sp[i].peer_wrote = 0
    /\ Len(PayloadWritten(sp[i])) = sp[i].header["size"]
    /\ s2c' = [s2c EXCEPT ![i] = @ \o Frame(dict_to_bytes(
                   [ack |-> "ok", sha256 |-> DigestOf(PayloadWritten(sp[i]))]))]
    /\ sp' = [sp EXCEPT ![i].peer_wrote = 1]
    /\ UNCHANGED <<scenario, fs, rx, peer, c2s, args, pc, cpA, ctlVars>>

InitRace ==
    /\ scenario = "RC"
    /\ fs = <<>>
    /\ args \in ArgChoices
    /\ pc = "loop"
    /\ pcB = "none"
    /\ InitCommon

NextRace ==
    \/ TxOpenNext
    \/ \E i \in Streams : TxConnectionMade(i)
    \/ \E i \in Streams : TxResumeProducing(i)
    \/ \E i \in Streams : TxPeerAck(i)
    \/ \E i \in Streams : \E n \in Chunks(s2c[i]) : TxDataReceived(i, n)
    \/ \E i \in Streams : TxConnectionLost(i)
    \/ TxResume
    \/ TxSendDone
    \/ TxClosed

SpecRace == InitRace /\ [][NextRace]_vars

(***************************************************************************)
(* Properties of the receiving side.                                       *)
(***************************************************************************)
\* A header incoming_file accepts.
ValidHeader(h) ==
    /\ h # <<>>
    /\ h["type"] = "file"
    /\ "compression" \notin DOMAIN h
    /\ isinstance_integer(h["size"])
    /\ h["size"] >= 0

AckFrame(digest) == Frame(dict_to_bytes([ack |-> "ok", sha256 |-> digest]))

\* C3: for a well-formed header frame followed by payload bytes, delivered in
\* any chunks, the header is decoded exactly once, as the map that was sent,
\* and Receiver.write is handed exactly the bytes delivered after the frame,
\* in order: nothing before the frame is complete, nothing lost or repeated.
C3_FragmentedDelivery ==
    \A s \in Streams :
        ValidHeader(peer[s].header) =>
            IF peer[s].delivered < FrameLen(peer[s])
            THEN /\ rx[s].decoded = <<>>
                 /\ rx[s].written = <<>>
                 /\ rx[s].receiver = <<>>
            ELSE /\ rx[s].decoded = <<peer[s].header>>
                 /\ rx[s].written =
                        SubSeq(PeerStream(peer[s]), FrameLen(peer[s]) + 1, peer[s].delivered)

\* C3's case: a whole stream with a payload of three bytes has been delivered
\* and handed to Receiver.write.
C3_Witness ==
    \E s \in Streams :
        /\ ValidHeader(peer[s].header)
        /\ Len(peer[s].payload) = 3
        /\ peer[s].delivered = Len(PeerStream(peer[s]))
        /\ rx[s].written = peer[s].payload
        /\ rx[s].decoded = <<peer[s].header>>

\* C5: the bytes written to the sink never exceed the size the header declared.
C5_NoExcessWritten ==
    \A s \in Streams :
        (ValidHeader(peer[s].header) /\ rx[s].receiver # <<>>) =>
            Len(fs[rx[s].receiver[1].fd]) <= peer[s].header["size"]

\* C6 as claimed: once more payload bytes than the header declared have been
\* delivered, no ack frame has been written on the stream.
C6_NoAckOnOverflow ==
    \A s \in Streams :
        (ValidHeader(peer[s].header) /\ peer[s].delivered > DeclaredEnd(peer[s])) =>
            rx[s].out = <<>>

\* C6 as amended: an ack frame is written on a receive stream exactly when a
\* chunk ends at the last declared payload byte, and then it is the one ack
\* of the first `size` payload bytes; when the chunk that reaches that byte
\* carries excess, nothing is ever written on the stream.
C6_AckOnlyAtDeclaredSize ==
    \A s \in Streams :
        ValidHeader(peer[s].header) =>
            rx[s].out = IF peer[s].cut_at_size
                        THEN AckFrame(DigestOf(Take(peer[s].payload, peer[s].header["size"])))
                        ELSE <<>>

\* C6's case: excess payload arrived in the chunk that reached the declared
\* size, the Receiver raised its overflow error and wrote no ack.
C6_Witness ==
    \E s \in Streams :
        /\ ValidHeader(peer[s].header)
        /\ peer[s].delivered > DeclaredEnd(peer[s])
        /\ ~peer[s].cut_at_size
        /\ "Receiver overflow" \in rx[s].raised
        /\ rx[s].out = <<>>

\* C7: when exactly the header frame of a size-0 transfer has been delivered,
\* the sink is closed and empty and the ack of the empty input has been written.
C7_ZeroLength ==
    \A s \in Streams :
        (/\ ValidHeader(peer[s].header)
         /\ peer[s].header["size"] = 0
         /\ peer[s].delivered = FrameLen(peer[s])) =>
            /\ rx[s].receiver # <<>>
            /\ rx[s].receiver[1].fd_closed
            /\ fs[rx[s].receiver[1].fd] = <<>>
            /\ rx[s].out = AckFrame(Sha256HexDigest(Sha256Init))

\* C7's case: the header frame of a size-0 transfer has just been completed.
C7_Witness ==
    \E s \in Streams :
        /\ ValidHeader(peer[s].header)
        /\ peer[s].header["size"] = 0
        /\ peer[s].delivered = FrameLen(peer[s])
        /\ rx[s].state = "open"
        /\ rx[s].out # <<>>

\* The name the collision rule asks for: n when free, else "n (k)" for the
\* smallest k >= 1 that is free.
FreeName(fsys, n) ==
    IF n \notin DOMAIN fsys THEN n
    ELSE LET k == CHOOSE k \in 1..(Cardinality(DOMAIN fsys) + 1) :
                      /\ FormatName(n, k) \notin DOMAIN fsys
                      /\ \A j \in 1..(k - 1) : FormatName(n, j) \in DOMAIN fsys
         IN  FormatName(n, k)

C8_Distinct ==
    \A s, t \in Streams :
        (s # t /\ rx[s].receiver # <<>> /\ rx[t].receiver # <<>>) =>
            rx[s].receiver[1].fd # rx[t].receiver[1].fd

C8_Step ==
    /\ \A n \in DOMAIN fs : n \in DOMAIN fs' /\ IsPrefix(fs[n], fs'[n])
    /\ \A s \in Streams :
          (rx[s].receiver = <<>> /\ rx'[s].receiver # <<>>) =>
              /\ rx'[s].receiver[1].fd \notin DOMAIN fs
              /\ rx'[s].receiver[1].fd = FreeName(fs, peer[s].header["name"])

\* C8: incoming_file opens a path that did not exist, chosen by the rule
\* "n, else n (k) for the smallest free k >= 1"; no step removes or truncates
\* a file of the directory, and no two receive sessions write the same path.
C8_NameCollision == [](C8_Distinct) /\ [][C8_Step]_vars

\* C8's case: two sessions were sent the same name and write "x" and "x (1)".
C8_Witness ==
    \E s, t \in Streams :
        /\ s # t
        /\ peer[s].header # <<>> /\ peer[t].header # <<>>
        /\ peer[s].header["name"] = Name_x /\ peer[t].header["name"] = Name_x
        /\ rx[s].receiver # <<>> /\ rx[t].receiver # <<>>
        /\ rx[s].receiver[1].fd = Name_x
        /\ rx[t].receiver[1].fd = Name_x1

(***************************************************************************)
(* Properties of the digests.                                              *)
(***************************************************************************)
\* The receive stream of SpecDigest has been delivered whole.
DigestReceived ==
    /\ peer[2].header # <<>>
    /\ peer[2].delivered = Len(PeerStream(peer[2]))

\* The SendProtocol of SpecDigest has set its expected hash.
DigestExpected == Len(sp) = 1 /\ sp[1].expected_hexhash # <<>>

\* What a SendProtocol wrote after its header.
SentAfterHeader(q) == Drop(q.written, Len(HeaderBytesWritten(q.header)))

\* C4: once the receiver has the whole payload, its ack carries the digest
\* of the bytes in the sink, which are the payload; the sender's expected
\* hash is the digest of the bytes it wrote after the header, which are the
\* file; and for the same bytes the two digests are equal.
C4_DigestAgreement ==
    /\ DigestReceived =>
          /\ rx[2].receiver # <<>>
          /\ fs[rx[2].receiver[1].fd] = peer[2].payload
          /\ rx[2].out = AckFrame(DigestOf(fs[rx[2].receiver[1].fd]))
    /\ DigestExpected =>
          /\ SentAfterHeader(sp[1]) = args[1].data
          /\ sp[1].expected_hexhash[1] = DigestOf(SentAfterHeader(sp[1]))
    /\ (DigestReceived /\ DigestExpected) =>
          bytes_to_dict(Drop(rx[2].out, 8))["sha256"] = sp[1].expected_hexhash[1]

\* C4's case: a two-byte file was sent in two chunks and received whole.
C4_Witness ==
    /\ DigestReceived
    /\ DigestExpected
    /\ Len(args[1].data) = 2
    /\ args[1].data[1] # args[1].data[2]

(***************************************************************************)
(* Properties of a session.                                                *)
(***************************************************************************)
\* The fault-free single-file session has run to its end.
E2EDone ==
    /\ Len(sp) = 1
    /\ rx[1].receiver # <<>>
    /\ fs[rx[1].receiver[1].fd] = args[1].data
    /\ rx[1].out = AckFrame(DigestOf(args[1].data))
    /\ sp[1].done_observer.result = "ok"
    /\ cpA.sent = <<[done |-> "done"]>>
    /\ pc \in {"closing", "returned"}
    /\ pcB \in {"closing", "returned"}

\* C1: a fault-free session of this program in mode tx with one file and this
\* program in mode rx eventually has the file written and acked, the
\* SendProtocol done with "ok", "done" sent and both sides at w.close().
C1_EndToEnd == (scenario = "AB" /\ Len(args) = 1) => <>E2EDone

\* C2: what a SendProtocol has written on its stream starts with the frame of
\* its header: the 8-byte length and then the serialized header; and once
\* this program's ReceiveProtocol has been delivered that much, it has
\* decoded the header the sender serialized.
C2_HeaderFramed ==
    \A i \in DOMAIN sp :
        /\ sp[i].conn # "connecting" =>
              IsPrefix(Frame(dict_to_bytes(sp[i].header)), sp[i].written)
        /\ (/\ scenario = "AB"
            /\ Len(sp[i].written) - Len(c2s[i]) >= Len(Frame(dict_to_bytes(sp[i].header)))) =>
              rx[i].decoded = <<sp[i].header>>

\* C9: the stream of a file is opened only when the SendProtocol of the file
\* before it has fired "ok"; at most one SendProtocol has no result; the
\* SendProtocols are made for the files in the order of the command line.
C9_Sequential ==
    /\ \A i \in DOMAIN sp : i > 1 => sp[i - 1].done_observer.result = "ok"
    /\ Cardinality({i \in DOMAIN sp : sp[i].done_observer.result = "NoResult"}) <= 1
    /\ Len(sp) <= Len(args)
    /\ \A i \in DOMAIN sp : sp[i].header = FileHeader(args[i]) /\ sp[i].fd = args[i].data

\* C9's case: the stream of a second file is open.
C9_Witness == Len(sp) = 2 /\ sp[2].conn = "open"

\* C10: {done:"done"} is sent at most once, only when every file of the
\* command line has a SendProtocol that fired "ok"; w.close() is called
\* only with the message sent.
C10_DoneOnce ==
    /\ Len(cpA.sent) <= 1
    /\ cpA.sent # <<>> =>
          /\ cpA.sent = <<[done |-> "done"]>>
          /\ Len(sp) = Len(args)
          /\ \A i \in DOMAIN sp : sp[i].done_observer.result = "ok"
    /\ pc \in {"closing", "returned"} => Len(cpA.sent) = 1

\* C10's case: two files were sent and acked, "done" was sent and open() returned.
C10_Witness == Len(args) = 2 /\ pc = "returned" /\ Len(cpA.sent) = 1

(***************************************************************************)
(* Properties of the receiving side: rejected headers and closed streams.  *)
(***************************************************************************)
\* C15: on a stream whose header has a type other than "file", a compression
\* field, or a size that is not a non-negative integer, no Receiver is made,
\* no file appears in the (initially empty) download directory, nothing is
\* written to the stream, and once the header frame has arrived an exception
\* has been raised.
C15_HeaderValidation ==
    \A s \in Streams :
        (peer[s].header # <<>> /\ ~ValidHeader(peer[s].header)) =>
            /\ rx[s].receiver = <<>>
            /\ DOMAIN fs = {}
            /\ rx[s].out = <<>>
            /\ peer[s].delivered >= FrameLen(peer[s]) => rx[s].raised # {}

\* The Receiver of the stream has received all the bytes its header declared.
Completed(p) == p.receiver # <<>> /\ p.receiver[1].remaining = 0

\* C16: a receive stream that was lost raised "unexpected close" exactly when
\* it had not completed: also when it was lost while waiting for its header.
C16_PrematureClose ==
    \A s \in Streams :
        rx[s].state = "lost" =>
            ("unexpected close" \in rx[s].raised <=> ~Completed(rx[s]))

(***************************************************************************)
(* Properties of the sending side: failures and success.                   *)
(***************************************************************************)
\* The errors process_ack raises.
AckErrors == {"premature ack", "ack not ok", "ack bad hash"}

\* A value an observer holds or delivers is a Failure.
IsFailure(v) == v \notin {"", "NoResult", "ok"}

\* SendProtocol i received a complete ack frame and process_ack rejected it.
Rejected(i) == i \in DOMAIN sp /\ sp[i].raised \cap AckErrors # {}

\* The Deferred of when_done of SendProtocol i was given a Failure.
Reported(i) == i \in DOMAIN sp /\ IsFailure(sp[i].done_observer.delivering)

\* The transfer of file i ended in failure.
TransferFailed(i) ==
    i \in DOMAIN sp /\ (Rejected(i) \/ IsFailure(sp[i].done_observer.result))

\* C11: once the transfer of file i has failed, no SendProtocol is made for
\* a later file, "done" is never sent and open() does not reach w.close();
\* and open() eventually ends with the error.
C11_StopOnFirstError ==
    /\ [](\A i \in Streams :
             TransferFailed(i) =>
                 /\ Len(sp) = i
                 /\ cpA.sent = <<>>
                 /\ pc \notin {"closing", "returned"})
    /\ \A i \in Streams : TransferFailed(i) ~> (pc = "failed")

\* C12: a rejected ack frame is eventually reported to the waiter of when_done.
C12_AckErrorReported == \A i \in Streams : Rejected(i) ~> Reported(i)

BufferedAck(q) ==
    IF Len(q.ack_buffer) < 8 \/ Len(q.ack_buffer) < 8 + from_be8(Take(q.ack_buffer, 8))
    THEN <<>>
    ELSE <<bytes_to_dict(SubSeq(q.ack_buffer, 9, 8 + from_be8(Take(q.ack_buffer, 8))))>>

\* C14: a SendProtocol whose observer was fired with "ok" has read its whole
\* source and set the expected hash, has received a complete ack frame, and
\* that ack says "ok" and carries the expected hash, the digest of the file.
C14_SuccessOnlyVerified ==
    \A i \in DOMAIN sp :
        (sp[i].done_observer.result = "ok" \/ sp[i].done_observer.delivering = "ok") =>
            /\ sp[i].producing = "finished"
            /\ sp[i].pos = Len(sp[i].fd)
            /\ sp[i].expected_hexhash = <<DigestOf(sp[i].fd)>>
            /\ sp[i].done
            /\ BufferedAck(sp[i]) # <<>>
            /\ BufferedAck(sp[i])[1]["ack"] = "ok"
            /\ BufferedAck(sp[i])[1]["sha256"] = sp[i].expected_hexhash[1]

\* C14's case: the transfer of a two-byte file was acked and fired "ok".
C14_Witness ==
    \E i \in DOMAIN sp :
        /\ sp[i].done_observer.result = "ok"
        /\ Len(sp[i].fd) = 2

(***************************************************************************)
(* Properties of the control stream.                                       *)
(***************************************************************************)
\* C17 as claimed: the rx process goes on to w.close() only when its
\* ControlProtocol decoded the message {done: "done"}.
C17_DoneOnly ==
    pcB \in {"closing", "returned"} => cp.msg = <<[done |-> "done"]>>

\* C17 as amended: the rx process goes on to w.close() only when its
\* ControlProtocol has buffered a complete control frame and fired its
\* observer with the message of that frame, whatever the message is.
C17_AfterControlFrame ==
    pcB \in {"closing", "returned"} =>
        /\ cp.msg # <<>>
        /\ IsPrefix(Frame(dict_to_bytes(cp.msg[1])), cp.buffer)
        /\ cp.done.result = "msg"

\* C17's case: a frame with another message was received and open() went on
\* to w.close() and returned.
C17_Witness == pcB = "returned" /\ cp.msg = <<[done |-> "more"]>>

\* C18: when the control stream is lost with no message received, the rx
\* process eventually leaves its wait on get_msg().
C18_ControlClosed ==
    (cp.conn = "lost" /\ cp.done.result = "NoResult") ~> (pcB # "wait")

\* C19: no dataReceived call of the ControlProtocol fires the observer a
\* second time (a second fire() fails its assertion).
C19_FiredOnce == "AssertionError" \notin cp.raised

(***************************************************************************)
(* Properties of the race between the ack and the end of the source.       *)
(***************************************************************************)
\* C20: with a receiver that follows the protocol and no fault, process_ack
\* never finds the expected hash unset.
C20_NoPrematureAck ==
    \A i \in DOMAIN sp : "premature ack" \notin sp[i].raised

====
